---- MODULE Spec2Model ----
(***************************************************************************)
(* Model of the cert-issuer issuance pipeline:                             *)
(*   cert_issuer/issuer.py     Issuer.issue_on_blockchain                  *)
(*   cert_issuer/helpers.py    internet_off_for_scope, check_internet_*    *)
(*   cert_issuer/trx_utils.py  sign_tx, send_tx, fee arithmetic            *)
(*   issuer/connectors.py      broadcasters and the two factories          *)
(***************************************************************************)
EXTENDS Integers, Sequences, FiniteSets, TLC

VARIABLES
    skip_wifi_check,        \* config.skip_wifi_check
    wallet_connector_type,  \* config.wallet_connector_type
    broadcaster_type,       \* config.broadcaster_type
    connector,              \* result of create_wallet_connector
    broadcast_function,     \* result of create_broadcast_function
    internet,               \* environment: would internet_on() return True
    usb,                    \* environment: os.path.exists(secrets_file_path)
    pc,                     \* position of the single thread of control
    td,                     \* index in trxs of the descriptor being processed
    unsigned_tx_file,       \* file td.unsigned_tx_file_name, per descriptor
    signed_tx_file,         \* file td.signed_tx_file_name, per descriptor
    sent_tx_file,           \* file td.sent_tx_file_name, per descriptor
    txid,                   \* what send_tx returned, per descriptor
    status_code,            \* r.status_code of the last relay response (0: none)
    err,                    \* the exception that ended the run, if any
    log,                    \* history: stage events, in the order they happened
    satoshi_per_byte,       \* calculate_txfee argument
    num_inputs,             \* calculate_txfee argument
    num_outputs,            \* calculate_txfee argument
    default_fee,            \* calculate_txfee argument
    tx_fee,                 \* calculate_txfee result (-1: not computed)
    num_certificates,       \* certificates issued by one transaction
    dust_threshold,         \* config, in whole coins
    recommended_fee_per_transaction,  \* config, in whole coins
    allow_transfer,         \* get_cost_for_certificate_batch argument
    num_transfer_outputs,   \* get_cost_for_certificate_batch argument
    op_return_val,          \* create_trx argument: the commitment payload
    issuing_transaction_cost, \* TransactionCosts of the issuing transaction
    transfer_cost,          \* TransactionCosts of the transfer, NoCost for None
    tx_input,               \* create_trx argument: the funding input
    txouts,                 \* create_trx argument: the recipient outputs
    tx                      \* the transaction create_trx returned

cfgvars  == <<skip_wifi_check, wallet_connector_type, broadcaster_type>>
envvars  == <<internet, usb>>
filevars == <<unsigned_tx_file, signed_tx_file, sent_tx_file>>
feevars  == <<satoshi_per_byte, num_inputs, num_outputs, default_fee, tx_fee>>
txvars   == <<num_certificates, dust_threshold, recommended_fee_per_transaction,
             allow_transfer, num_transfer_outputs, op_return_val,
             issuing_transaction_cost, transfer_cost, tx_input, txouts, tx>>
vars == <<skip_wifi_check, wallet_connector_type, broadcaster_type, connector,
          broadcast_function, internet, usb, pc, td, unsigned_tx_file,
          signed_tx_file, sent_tx_file, txid, status_code, err, log,
          satoshi_per_byte, num_inputs, num_outputs, default_fee, tx_fee,
          num_certificates, dust_threshold, recommended_fee_per_transaction,
          allow_transfer, num_transfer_outputs, op_return_val,
          issuing_transaction_cost, transfer_cost, tx_input, txouts, tx>>

----------------------------------------------------------------------------
(* Bounds *)

NumTrxs           == 2   \* descriptors returned by create_transactions
MaxSatoshiPerByte == 3
MaxInputs         == 2
MaxOutputs        == 4
MaxFeeSteps       == 6   \* default_fee ranges over 0, FeeStep, ..., MaxFeeSteps*FeeStep
FeeStep           == 250
MaxCertificates   == 2
MaxDustThreshold  == 1   \* whole coins, so that dust_threshold * COIN is an integer
MaxRecommendedFee == 1   \* whole coins
MaxSurplus        == 1000

Trxs == 1..NumTrxs

----------------------------------------------------------------------------
(* Program constants, trx_utils.py and issuer.py *)

OUTPUTS_PER_CERTIFICATE == 2

COIN              == 100000000
BYTES_PER_INPUT   == 148
BYTES_PER_OUTPUT  == 34
FIXED_EXTRA_BYTES == 10

----------------------------------------------------------------------------
(* Values.  Every file content and every txid is a pair <<kind, index>>.   *)

Absent  == <<"absent", 0>>         \* the file does not exist
Empty   == <<"empty", 0>>          \* created by open(.., 'wb'), nothing written
None    == <<"None", 0>>           \* Python None
NoCall  == <<"nocall", 0>>         \* send_tx has not returned for this descriptor

hextx(d)        == <<"hextx", d>>              \* hexlify(td.tx.serialize())
signed_hextx(h) == <<"signed_hextx", h[2]>>    \* signed_tx.as_hex()
new_txid(h)     == <<"txid", h[2]>>            \* identifier given by the backend

WalletConnectorTypes == {"blockchain.info", "bitcoind", "noop"}
BroadcasterTypes     == {"btc.blockr.io", "insight.bitpay.com", "bitcoind",
                         "noop", "blockchain.info", ""}

----------------------------------------------------------------------------
(* connectors.py: the two factories *)

create_wallet_connector(t) ==
    IF t = "blockchain.info" THEN "BlockchainInfoConnector"
    ELSE IF t = "bitcoind" THEN "BitcoindConnector"
    ELSE "UnrecognizedConnectorError"

\* Variant: an unknown discriminator silently selects the no-op broadcaster
create_broadcast_function_Default(t) ==
    IF t = "btc.blockr.io" THEN "blockr_broadcast"
    ELSE IF t = "insight.bitpay.com" THEN "insight_broadcast"
    ELSE IF t = "bitcoind" THEN "bitcoind_broadcast"
    ELSE "noop_broadcast"

create_broadcast_function(t) ==
    IF t = "btc.blockr.io" THEN "blockr_broadcast"
    ELSE IF t = "insight.bitpay.com" THEN "insight_broadcast"
    ELSE IF t = "bitcoind" THEN "bitcoind_broadcast"
    ELSE IF t = "noop" THEN "noop_broadcast"
    ELSE "UnrecognizedConnectorError"

----------------------------------------------------------------------------
(* trx_utils.py: fee arithmetic *)

Max(a, b) == IF a >= b THEN a ELSE b

\* Variant: the size without the trailing + num_inputs
calculate_raw_tx_size_NoSlack(ni, no) ==
    (ni * BYTES_PER_INPUT) + (no * BYTES_PER_OUTPUT) + FIXED_EXTRA_BYTES

\* Variant: a sign slip, the output bytes are subtracted
calculate_raw_tx_size_MinusOutputs(ni, no) ==
    (ni * BYTES_PER_INPUT) - (no * BYTES_PER_OUTPUT) + FIXED_EXTRA_BYTES + ni

calculate_raw_tx_size(ni, no) ==
    (ni * BYTES_PER_INPUT) + (no * BYTES_PER_OUTPUT) + FIXED_EXTRA_BYTES + ni

calculate_txfee(rate, ni, no, floor) ==
    LET tx_size == calculate_raw_tx_size(ni, no)
        fee     == rate * tx_size
    IN  Max(fee, floor)

----------------------------------------------------------------------------
(* trx_utils.py and issuer.py: cost of a transaction *)

TransactionCosts(min_per_output, fee, total) ==
    [min_per_output |-> min_per_output, fee |-> fee, total |-> total]

NoCost == TransactionCosts(-1, -1, -1)     \* not computed, or Python None

calculate_total(min_per_output, no, txfee) ==
    min_per_output * no + txfee

\* Variant: the fee is computed for two inputs
get_cost_TwoInputs(recommended, dust, rate, no) ==
    LET recommended_fee == recommended * COIN
        min_per_output  == dust * COIN
        txfee == calculate_txfee(rate, 2, no, recommended_fee)
        total == calculate_total(min_per_output, no, txfee)
    IN  TransactionCosts(min_per_output, txfee, total)

get_cost(recommended, dust, rate, no) ==
    LET recommended_fee == recommended * COIN
        min_per_output  == dust * COIN
        txfee == calculate_txfee(rate, 1, no, recommended_fee)
        total == calculate_total(min_per_output, no, txfee)
    IN  TransactionCosts(min_per_output, txfee, total)

\* Variant: only the recipient outputs are counted
get_num_outputs_NoExtra(n) == OUTPUTS_PER_CERTIFICATE * n

get_num_outputs(n) == OUTPUTS_PER_CERTIFICATE * n + 2

----------------------------------------------------------------------------
(* trx_utils.py: building a transaction.  An address and a payload are     *)
(* pairs <<kind, index>>; an output is a CMutableTxOut.                    *)

issuing_address    == <<"issuing_address", 0>>
revocation_address == <<"revocation_address", 0>>
recipient_address(i) == <<"recipient_address", i>>

Payloads == { <<"batch_hash", 1>>, <<"batch_hash", 2>> }

CMutableTxOut(nValue, scriptPubKey) ==
    [nValue |-> nValue, scriptPubKey |-> scriptPubKey]

create_transaction_output(address, transaction_fee) ==
    CMutableTxOut(transaction_fee, <<"to_scriptPubKey", address>>)

create_recipient_outputs(recipient, revocation, transaction_fee) ==
    << create_transaction_output(recipient, transaction_fee) >>
        \o << create_transaction_output(revocation, transaction_fee) >>

\* Variant: a change output is appended also for a remainder of zero
create_trx_ChangeWhenNotNegative(op, cost, address, outs, input) ==
    LET cert_out == CMutableTxOut(0, <<"OP_RETURN", op>>)
        txins    == << input.outpoint >>
        value_in == input.amount
        amount   == value_in - cost.total
        outs1    == IF amount >= 0
                    THEN outs \o << create_transaction_output(address, amount) >>
                    ELSE outs
        outs2    == outs1 \o << cert_out >>
    IN  [vin |-> txins, vout |-> outs2]

\* Variant: a change output is appended for every remainder but zero
create_trx_ChangeWhenNotZero(op, cost, address, outs, input) ==
    LET cert_out == CMutableTxOut(0, <<"OP_RETURN", op>>)
        txins    == << input.outpoint >>
        value_in == input.amount
        amount   == value_in - cost.total
        outs1    == IF amount # 0
                    THEN outs \o << create_transaction_output(address, amount) >>
                    ELSE outs
        outs2    == outs1 \o << cert_out >>
    IN  [vin |-> txins, vout |-> outs2]

\* Variant: the commitment output is appended before the change output
create_trx_CommitmentBeforeChange(op, cost, address, outs, input) ==
    LET cert_out == CMutableTxOut(0, <<"OP_RETURN", op>>)
        txins    == << input.outpoint >>
        value_in == input.amount
        amount   == value_in - cost.total
        outs1    == outs \o << cert_out >>
        outs2    == IF amount > 0
                    THEN outs1 \o << create_transaction_output(address, amount) >>
                    ELSE outs1
    IN  [vin |-> txins, vout |-> outs2]

create_trx(op, cost, address, outs, input) ==
    LET cert_out == CMutableTxOut(0, <<"OP_RETURN", op>>)
        txins    == << input.outpoint >>
        value_in == input.amount
        amount   == value_in - cost.total
        outs1    == IF amount > 0
                    THEN outs \o << create_transaction_output(address, amount) >>
                    ELSE outs
        outs2    == outs1 \o << cert_out >>
    IN  [vin |-> txins, vout |-> outs2]

NoTx == [vin |-> <<>>, vout |-> <<>>]      \* create_trx has not returned

TransactionOutput(amount) == [outpoint |-> <<"outpoint", 0>>, amount |-> amount]

----------------------------------------------------------------------------
(* Stage events of one descriptor, in program order of issue_on_blockchain *)

StageOrder == << <<"persist_unsigned", "start">>, <<"persist_unsigned", "end">>,
                 <<"sign_tx", "start">>,          <<"sign_tx", "end">>,
                 <<"persist_signed", "start">>,   <<"persist_signed", "end">>,
                 <<"verify_transaction", "start">>, <<"verify_transaction", "end">>,
                 <<"send_tx", "start">>,          <<"send_tx", "end">>,
                 <<"persist_sent", "start">>,     <<"persist_sent", "end">> >>

Event(d, stage, edge) == <<d, stage, edge>>

----------------------------------------------------------------------------
(* Initial states *)

PipelineInit ==
    /\ connector = "unset"
    /\ broadcast_function = "unset"
    /\ td = 0
    /\ unsigned_tx_file = [d \in Trxs |-> Absent]
    /\ signed_tx_file   = [d \in Trxs |-> Absent]
    /\ sent_tx_file     = [d \in Trxs |-> Absent]
    /\ txid = [d \in Trxs |-> NoCall]
    /\ status_code = 0
    /\ err = "none"
    /\ log = <<>>

FeeIdle ==
    /\ satoshi_per_byte = 0
    /\ num_inputs = 0
    /\ num_outputs = 0
    /\ default_fee = 0
    /\ tx_fee = -1

TxIdle ==
    /\ num_certificates = 0
    /\ dust_threshold = 0
    /\ recommended_fee_per_transaction = 0
    /\ allow_transfer = FALSE
    /\ num_transfer_outputs = 0
    /\ op_return_val = <<"batch_hash", 0>>
    /\ issuing_transaction_cost = NoCost
    /\ transfer_cost = NoCost
    /\ tx_input = TransactionOutput(-1)
    /\ txouts = <<>>
    /\ tx = NoTx

Init ==
    /\ skip_wifi_check \in BOOLEAN
    /\ wallet_connector_type \in WalletConnectorTypes
    /\ broadcaster_type \in BroadcasterTypes
    /\ internet \in BOOLEAN
    /\ usb \in BOOLEAN
    /\ pc = "create_wallet_connector"
    /\ PipelineInit
    /\ FeeIdle
    /\ TxIdle

----------------------------------------------------------------------------
(* Raising an exception: nothing in issue_on_blockchain or its callees     *)
(* catches, so the exception leaves the loop and the run is over.          *)

\* Variant: the loop body catches the exception and goes on with the next descriptor
Raise_Swallowed(e) ==
    /\ pc' = "for_td"
    /\ err' = e

Raise(e) ==
    /\ pc' = "failed"
    /\ err' = e

Running == pc \notin {"done", "failed"}

----------------------------------------------------------------------------
(* helpers.py: the two polling conditions *)

\* Variant: the poll looks at the key file only
internet_off_ok_KeyOnly(net, key_present) == key_present

internet_off_ok(net, key_present) == net = FALSE /\ key_present

\* Variant: the poll after signing does not wait for the key to be removed
internet_on_ok_NetOnly(net, key_present) == net = TRUE

internet_on_ok(net, key_present) == net = TRUE /\ ~key_present

----------------------------------------------------------------------------
(* connectors.py: the broadcasters.  r is what requests.post gave back:   *)
(* r.status_code = 0 stands for requests.post raising instead of           *)
(* returning.  The result is <<"return", value>> or <<"raise", exception>>.*)

HttpResponses(net) ==
    IF net
    THEN { [status_code |-> 200, has_txid |-> TRUE],
           [status_code |-> 200, has_txid |-> FALSE],
           [status_code |-> 500, has_txid |-> FALSE],
           [status_code |-> 0,   has_txid |-> FALSE] }
    ELSE { [status_code |-> 0,   has_txid |-> FALSE] }

\* Variant: a non-200 response is reported as "no txid" instead of exiting
insight_broadcast_NoExit(h, r) ==
    IF r.status_code = 0 THEN <<"raise", "ConnectionError">>
    ELSE IF r.status_code # 200 THEN <<"return", None>>
    ELSE <<"return", IF r.has_txid THEN new_txid(h) ELSE None>>

insight_broadcast(h, r) ==
    IF r.status_code = 0 THEN <<"raise", "ConnectionError">>
    ELSE IF r.status_code # 200 THEN <<"raise", "SystemExit">>
    ELSE <<"return", IF r.has_txid THEN new_txid(h) ELSE None>>

blockr_broadcast(h, r) ==
    IF r.status_code = 0 THEN <<"raise", "ConnectionError">>
    ELSE IF r.status_code # 200 THEN <<"raise", "SystemExit">>
    ELSE <<"return", IF r.has_txid THEN new_txid(h) ELSE None>>

noop_broadcast(h) == <<"return", None>>

bitcoind_broadcast(h, rpc_ok) ==
    IF rpc_ok THEN <<"return", new_txid(h)>> ELSE <<"raise", "JSONRPCError">>

IsRelay(f) == f \in {"insight_broadcast", "blockr_broadcast"}

broadcaster(f, h, r, rpc_ok) ==
    IF f = "insight_broadcast" THEN insight_broadcast(h, r)
    ELSE IF f = "blockr_broadcast" THEN blockr_broadcast(h, r)
    ELSE IF f = "bitcoind_broadcast" THEN bitcoind_broadcast(h, rpc_ok)
    ELSE noop_broadcast(h)

----------------------------------------------------------------------------
(* Startup: the discriminators are resolved once, before issuing *)

CreateWalletConnector ==
    /\ pc = "create_wallet_connector"
    /\ LET c == create_wallet_connector(wallet_connector_type)
       IN  IF c = "UnrecognizedConnectorError"
           THEN Raise(c) /\ UNCHANGED connector
           ELSE connector' = c /\ pc' = "create_broadcast_function" /\ UNCHANGED err
    /\ UNCHANGED <<cfgvars, envvars, filevars, feevars, txvars, broadcast_function, td, txid, status_code, log>>

CreateBroadcastFunction ==
    /\ pc = "create_broadcast_function"
    /\ LET f == create_broadcast_function(broadcaster_type)
       IN  IF f = "UnrecognizedConnectorError"
           THEN Raise(f) /\ UNCHANGED broadcast_function
           ELSE broadcast_function' = f /\ pc' = "create_transactions" /\ UNCHANGED err
    /\ UNCHANGED <<cfgvars, envvars, filevars, feevars, txvars, connector, td, txid, status_code, log>>

----------------------------------------------------------------------------
(* issuer.py: issue_on_blockchain *)

CreateTransactions ==
    /\ pc = "create_transactions"
    /\ td' = 0
    /\ pc' = "for_td"
    /\ UNCHANGED <<cfgvars, envvars, filevars, feevars, txvars, connector,
                   broadcast_function, txid, status_code, err, log>>

\* for td in trxs: take the next descriptor, or leave the loop
ForTd ==
    /\ pc = "for_td"
    /\ IF td < NumTrxs
       THEN td' = td + 1 /\ pc' = "open_unsigned"
       ELSE td' = td /\ pc' = "done"
    /\ UNCHANGED <<cfgvars, envvars, filevars, feevars, txvars, connector,
                   broadcast_function, txid, status_code, err, log>>

\* Variant: the unsigned transaction is not persisted before signing
OpenUnsigned_Deferred ==
    /\ pc = "open_unsigned"
    /\ log' = Append(log, Event(td, "persist_unsigned", "start"))
    /\ pc' = "sign_tx"
    /\ UNCHANGED <<cfgvars, envvars, filevars, feevars, txvars, connector,
                   broadcast_function, td, txid, status_code, err>>

\* with open(td.unsigned_tx_file_name, 'wb') as out_file:
OpenUnsigned ==
    /\ pc = "open_unsigned"
    /\ log' = Append(log, Event(td, "persist_unsigned", "start"))
    /\ \E ok \in BOOLEAN :
         IF ok
         THEN /\ unsigned_tx_file' = [unsigned_tx_file EXCEPT ![td] = Empty]
              /\ pc' = "write_unsigned"
              /\ UNCHANGED err
         ELSE /\ Raise("OSError")
              /\ UNCHANGED unsigned_tx_file
    /\ UNCHANGED <<cfgvars, envvars, feevars, txvars, connector, broadcast_function,
                   td, signed_tx_file, sent_tx_file, txid, status_code>>

\*     out_file.write(bytes(hextx, 'utf-8'))
WriteUnsigned ==
    /\ pc = "write_unsigned"
    /\ unsigned_tx_file' = [unsigned_tx_file EXCEPT ![td] = hextx(td)]
    /\ log' = Append(log, Event(td, "persist_unsigned", "end"))
    /\ pc' = "sign_tx"
    /\ UNCHANGED <<cfgvars, envvars, feevars, txvars, connector, broadcast_function,
                   td, signed_tx_file, sent_tx_file, txid, status_code, err>>

\* signed_hextx = trx_utils.sign_tx(...): the call enters func_wrapper
CallSignTx ==
    /\ pc = "sign_tx"
    /\ log' = Append(log, Event(td, "sign_tx", "start"))
    /\ pc' = "check_internet_off"
    /\ UNCHANGED <<cfgvars, envvars, filevars, feevars, txvars, connector,
                   broadcast_function, td, txid, status_code, err>>

\* Variant: check_internet_off polls whatever skip_wifi_check says
CheckInternetOff_AlwaysPoll ==
    /\ pc = "check_internet_off"
    /\ IF internet = FALSE /\ usb
       THEN pc' = "import_key"
       ELSE pc' = "sleep_off"
    /\ UNCHANGED <<cfgvars, envvars, filevars, feevars, txvars, connector,
                   broadcast_function, td, txid, status_code, err, log>>

\* helpers.check_internet_off: one evaluation of the guard or of the loop test
CheckInternetOff ==
    /\ pc = "check_internet_off"
    /\ IF skip_wifi_check
       THEN pc' = "import_key"
       ELSE IF internet_off_ok(internet, usb)
            THEN pc' = "import_key"
            ELSE pc' = "sleep_off"
    /\ UNCHANGED <<cfgvars, envvars, filevars, feevars, txvars, connector,
                   broadcast_function, td, txid, status_code, err, log>>

\* Variant: after a failed poll the loop sleeps and never tests the condition again
SleepOff_NoRepoll ==
    /\ pc = "sleep_off"
    /\ pc' = "sleep_off"
    /\ UNCHANGED <<cfgvars, envvars, filevars, feevars, txvars, connector,
                   broadcast_function, td, txid, status_code, err, log>>

\* time.sleep(10) in check_internet_off
SleepOff ==
    /\ pc = "sleep_off"
    /\ pc' = "check_internet_off"
    /\ UNCHANGED <<cfgvars, envvars, filevars, feevars, txvars, connector,
                   broadcast_function, td, txid, status_code, err, log>>

\* sign_tx body: Tx.from_hex, helpers.import_key, wif_to_secret_exponent
ImportKey ==
    /\ pc = "import_key"
    /\ IF ~usb
       THEN Raise("FileNotFoundError")
       ELSE \E wif_ok \in BOOLEAN :
              IF wif_ok
              THEN pc' = "tx_sign" /\ UNCHANGED err
              ELSE Raise("EncodingError")
    /\ UNCHANGED <<cfgvars, envvars, filevars, feevars, txvars, connector,
                   broadcast_function, td, txid, status_code, log>>

\* sign_tx body: build_hash160_lookup, set_unspents, tx.sign, as_hex
TxSign ==
    /\ pc = "tx_sign"
    /\ \E ok \in BOOLEAN :
         IF ok
         THEN pc' = "check_internet_on" /\ UNCHANGED err
         ELSE Raise("SigningError")
    /\ UNCHANGED <<cfgvars, envvars, filevars, feevars, txvars, connector,
                   broadcast_function, td, txid, status_code, log>>

\* helpers.check_internet_on, then func_wrapper returns result
CheckInternetOn ==
    /\ pc = "check_internet_on"
    /\ IF skip_wifi_check \/ internet_on_ok(internet, usb)
       THEN /\ pc' = "open_signed"
            /\ log' = Append(log, Event(td, "sign_tx", "end"))
       ELSE /\ pc' = "sleep_on"
            /\ UNCHANGED log
    /\ UNCHANGED <<cfgvars, envvars, filevars, feevars, txvars, connector,
                   broadcast_function, td, txid, status_code, err>>

\* time.sleep(10) in check_internet_on
SleepOn ==
    /\ pc = "sleep_on"
    /\ pc' = "check_internet_on"
    /\ UNCHANGED <<cfgvars, envvars, filevars, feevars, txvars, connector,
                   broadcast_function, td, txid, status_code, err, log>>

\* with open(td.signed_tx_file_name, 'wb') as out_file:
OpenSigned ==
    /\ pc = "open_signed"
    /\ log' = Append(log, Event(td, "persist_signed", "start"))
    /\ \E ok \in BOOLEAN :
         IF ok
         THEN /\ signed_tx_file' = [signed_tx_file EXCEPT ![td] = Empty]
              /\ pc' = "write_signed"
              /\ UNCHANGED err
         ELSE /\ Raise("OSError")
              /\ UNCHANGED signed_tx_file
    /\ UNCHANGED <<cfgvars, envvars, feevars, txvars, connector, broadcast_function,
                   td, unsigned_tx_file, sent_tx_file, txid, status_code>>

\* Variant: the signed transaction is broadcast without being verified
WriteSigned_SkipVerify ==
    /\ pc = "write_signed"
    /\ signed_tx_file' = [signed_tx_file EXCEPT ![td] = signed_hextx(hextx(td))]
    /\ log' = Append(log, Event(td, "persist_signed", "end"))
    /\ pc' = "send_tx"
    /\ UNCHANGED <<cfgvars, envvars, feevars, txvars, connector, broadcast_function,
                   td, unsigned_tx_file, sent_tx_file, txid, status_code, err>>

\*     out_file.write(bytes(signed_hextx, 'utf-8'))
WriteSigned ==
    /\ pc = "write_signed"
    /\ signed_tx_file' = [signed_tx_file EXCEPT ![td] = signed_hextx(hextx(td))]
    /\ log' = Append(log, Event(td, "persist_signed", "end"))
    /\ pc' = "verify_transaction"
    /\ UNCHANGED <<cfgvars, envvars, feevars, txvars, connector, broadcast_function,
                   td, unsigned_tx_file, sent_tx_file, txid, status_code, err>>

\* Variant: a failed verification is ignored and the transaction is sent
VerifyTransaction_Unchecked ==
    /\ pc = "verify_transaction"
    /\ \E ok \in BOOLEAN :
         IF ok
         THEN log' = log \o << Event(td, "verify_transaction", "start"),
                               Event(td, "verify_transaction", "end") >>
         ELSE log' = Append(log, Event(td, "verify_transaction", "start"))
    /\ pc' = "send_tx"
    /\ UNCHANGED <<cfgvars, envvars, filevars, feevars, txvars, connector,
                   broadcast_function, td, txid, status_code, err>>

\* cert_utils.verify_transaction(td.op_return_value, signed_hextx)
VerifyTransaction ==
    /\ pc = "verify_transaction"
    /\ \E ok \in BOOLEAN :
         IF ok
         THEN /\ log' = log \o << Event(td, "verify_transaction", "start"),
                                  Event(td, "verify_transaction", "end") >>
              /\ pc' = "send_tx"
              /\ UNCHANGED err
         ELSE /\ log' = Append(log, Event(td, "verify_transaction", "start"))
              /\ Raise("VerificationError")
    /\ UNCHANGED <<cfgvars, envvars, filevars, feevars, txvars, connector,
                   broadcast_function, td, txid, status_code>>

\* Variant: a broadcast that raises is tried again
SendTx_RetryOnError ==
    /\ pc = "send_tx"
    /\ \E r \in HttpResponses(internet), rpc_ok \in BOOLEAN :
         LET out == broadcaster(broadcast_function, signed_hextx(hextx(td)), r, rpc_ok)
         IN
         /\ status_code' = IF IsRelay(broadcast_function)
                           THEN r.status_code ELSE status_code
         /\ IF out[1] = "return"
            THEN /\ txid' = [txid EXCEPT ![td] = out[2]]
                 /\ log' = log \o << Event(td, "send_tx", "start"),
                                     Event(td, "send_tx", "end") >>
                 /\ pc' = "open_sent"
            ELSE /\ log' = Append(log, Event(td, "send_tx", "start"))
                 /\ pc' = "send_tx"
                 /\ UNCHANGED txid
    /\ UNCHANGED <<cfgvars, envvars, filevars, feevars, txvars, connector,
                   broadcast_function, td, err>>

\* txid = trx_utils.send_tx(broadcast_function, signed_hextx)
SendTx ==
    /\ pc = "send_tx"
    /\ \E r \in HttpResponses(internet), rpc_ok \in BOOLEAN :
         LET out == broadcaster(broadcast_function, signed_hextx(hextx(td)), r, rpc_ok)
         IN
         /\ status_code' = IF IsRelay(broadcast_function)
                           THEN r.status_code ELSE status_code
         /\ IF out[1] = "return"
            THEN /\ txid' = [txid EXCEPT ![td] = out[2]]
                 /\ log' = log \o << Event(td, "send_tx", "start"),
                                     Event(td, "send_tx", "end") >>
                 /\ pc' = "open_sent"
                 /\ UNCHANGED err
            ELSE /\ log' = Append(log, Event(td, "send_tx", "start"))
                 /\ Raise(out[2])
                 /\ UNCHANGED txid
    /\ UNCHANGED <<cfgvars, envvars, filevars, feevars, txvars, connector,
                   broadcast_function, td>>

\* Variant: the next descriptor is taken up before the txid is persisted
OpenSent_NotPersisted ==
    /\ pc = "open_sent"
    /\ log' = Append(log, Event(td, "persist_sent", "start"))
    /\ pc' = "for_td"
    /\ UNCHANGED <<cfgvars, envvars, filevars, feevars, txvars, connector,
                   broadcast_function, td, txid, status_code, err>>

\* with open(td.sent_tx_file_name, 'wb') as out_file:
OpenSent ==
    /\ pc = "open_sent"
    /\ log' = Append(log, Event(td, "persist_sent", "start"))
    /\ \E ok \in BOOLEAN :
         IF ok
         THEN /\ sent_tx_file' = [sent_tx_file EXCEPT ![td] = Empty]
              /\ pc' = "write_sent"
              /\ UNCHANGED err
         ELSE /\ Raise("OSError")
              /\ UNCHANGED sent_tx_file
    /\ UNCHANGED <<cfgvars, envvars, feevars, txvars, connector, broadcast_function,
                   td, unsigned_tx_file, signed_tx_file, txid, status_code>>

\*     out_file.write(bytes(txid, 'utf-8')): bytes(None, 'utf-8') is a TypeError
WriteSent ==
    /\ pc = "write_sent"
    /\ IF txid[td] = None
       THEN /\ Raise("TypeError")
            /\ UNCHANGED <<sent_tx_file, log>>
       ELSE /\ sent_tx_file' = [sent_tx_file EXCEPT ![td] = txid[td]]
            /\ log' = Append(log, Event(td, "persist_sent", "end"))
            /\ pc' = "for_td"
            /\ UNCHANGED err
    /\ UNCHANGED <<cfgvars, envvars, feevars, txvars, connector, broadcast_function,
                   td, unsigned_tx_file, signed_tx_file, txid, status_code>>

\* The process is interrupted (killed, power loss) while issuing
Interrupt ==
    /\ Running
    /\ td >= 1
    /\ Raise("Interrupted")
    /\ UNCHANGED <<cfgvars, envvars, filevars, feevars, txvars, connector,
                   broadcast_function, td, txid, status_code, log>>

----------------------------------------------------------------------------
(* The environment: the operator switches the network and plugs the USB key *)

Environment ==
    /\ \E net \in BOOLEAN, key_present \in BOOLEAN :
         /\ <<net, key_present>> # <<internet, usb>>
         /\ internet' = net
         /\ usb' = key_present
    /\ UNCHANGED <<cfgvars, filevars, feevars, txvars, connector, broadcast_function,
                   pc, td, txid, status_code, err, log>>

Next ==
    \/ CreateWalletConnector
    \/ CreateBroadcastFunction
    \/ CreateTransactions
    \/ ForTd
    \/ OpenUnsigned
    \/ WriteUnsigned
    \/ CallSignTx
    \/ CheckInternetOff
    \/ SleepOff
    \/ ImportKey
    \/ TxSign
    \/ CheckInternetOn
    \/ SleepOn
    \/ OpenSigned
    \/ WriteSigned
    \/ VerifyTransaction
    \/ SendTx
    \/ OpenSent
    \/ WriteSent
    \/ Interrupt
    \/ Environment

Spec == Init /\ [][Next]_vars

\* The steps of the issuing process itself.  It is one sequential Python
\* process: as long as it is neither killed nor finished, its next statement
\* is eventually executed.  Nothing is assumed of the operator (Environment)
\* or of an interruption.
IssueStep ==
    \/ CreateWalletConnector
    \/ CreateBroadcastFunction
    \/ CreateTransactions
    \/ ForTd
    \/ OpenUnsigned
    \/ WriteUnsigned
    \/ CallSignTx
    \/ CheckInternetOff
    \/ SleepOff
    \/ ImportKey
    \/ TxSign
    \/ CheckInternetOn
    \/ SleepOn
    \/ OpenSigned
    \/ WriteSigned
    \/ VerifyTransaction
    \/ SendTx
    \/ OpenSent
    \/ WriteSent

LiveSpec == Init /\ [][Next]_vars /\ WF_vars(IssueStep)

----------------------------------------------------------------------------
(* Fee arithmetic as a state machine: inputs drawn in FeeInit, one step    *)
(* applies calculate_txfee.                                                *)

FeeInit ==
    /\ skip_wifi_check = FALSE
    /\ wallet_connector_type = "bitcoind"
    /\ broadcaster_type = "noop"
    /\ internet = FALSE
    /\ usb = FALSE
    /\ pc = "calculate_txfee"
    /\ PipelineInit
    /\ satoshi_per_byte \in 0..MaxSatoshiPerByte
    /\ num_inputs \in 0..MaxInputs
    /\ num_outputs \in 0..MaxOutputs
    /\ default_fee \in {k * FeeStep : k \in 0..MaxFeeSteps}
    /\ tx_fee = -1
    /\ TxIdle

CalculateTxFee ==
    /\ pc = "calculate_txfee"
    /\ tx_fee' = calculate_txfee(satoshi_per_byte, num_inputs, num_outputs, default_fee)
    /\ pc' = "returned"
    /\ UNCHANGED <<cfgvars, envvars, filevars, connector, broadcast_function,
                   td, txid, status_code, err, log, satoshi_per_byte, num_inputs,
                   num_outputs, default_fee, txvars>>

\* calculate_txfee called again with the same rate and floor and one of the
\* two counts raised by one
RecalculateTxFee ==
    /\ pc = "returned"
    /\ \E more_inputs \in BOOLEAN :
         /\ num_inputs' = IF more_inputs THEN num_inputs + 1 ELSE num_inputs
         /\ num_outputs' = IF more_inputs THEN num_outputs ELSE num_outputs + 1
    /\ num_inputs' <= MaxInputs
    /\ num_outputs' <= MaxOutputs
    /\ tx_fee' = calculate_txfee(satoshi_per_byte, num_inputs', num_outputs', default_fee)
    /\ UNCHANGED <<cfgvars, envvars, filevars, connector, broadcast_function,
                   pc, td, txid, status_code, err, log, satoshi_per_byte,
                   default_fee, txvars>>

FeeNext ==
    \/ CalculateTxFee
    \/ RecalculateTxFee

FeeSpec == FeeInit /\ [][FeeNext]_vars

----------------------------------------------------------------------------
(* Costing and building one issuing transaction as a state machine: the    *)
(* configuration and the batch size are drawn in TxInit, the funding value *)
(* when the input is selected.                                             *)

TxInit ==
    /\ skip_wifi_check = FALSE
    /\ wallet_connector_type = "bitcoind"
    /\ broadcaster_type = "noop"
    /\ internet = FALSE
    /\ usb = FALSE
    /\ pc = "get_cost_for_certificate_batch"
    /\ PipelineInit
    /\ satoshi_per_byte \in 0..MaxSatoshiPerByte
    /\ num_inputs = 0
    /\ num_outputs = 0
    /\ default_fee = 0
    /\ tx_fee = -1
    /\ num_certificates \in 1..MaxCertificates
    /\ dust_threshold \in 0..MaxDustThreshold
    /\ recommended_fee_per_transaction \in 0..MaxRecommendedFee
    /\ allow_transfer \in BOOLEAN
    /\ num_transfer_outputs \in IF allow_transfer THEN 0..MaxOutputs ELSE {0}
    /\ op_return_val \in Payloads
    /\ issuing_transaction_cost = NoCost
    /\ transfer_cost = NoCost
    /\ tx_input = TransactionOutput(-1)
    /\ txouts = <<>>
    /\ tx = NoTx

\* Issuer.get_cost_for_certificate_batch, with num_outputs from get_num_outputs
GetCostForCertificateBatch ==
    /\ pc = "get_cost_for_certificate_batch"
    /\ issuing_transaction_cost' =
          get_cost(recommended_fee_per_transaction, dust_threshold,
                   satoshi_per_byte, get_num_outputs(num_certificates))
    /\ transfer_cost' =
          IF allow_transfer
          THEN get_cost(recommended_fee_per_transaction, dust_threshold,
                        satoshi_per_byte, num_transfer_outputs)
          ELSE NoCost
    /\ pc' = "create_recipient_outputs"
    /\ UNCHANGED <<cfgvars, envvars, filevars, feevars, connector,
                   broadcast_function, td, txid, status_code, err, log,
                   num_certificates, dust_threshold,
                   recommended_fee_per_transaction, allow_transfer,
                   num_transfer_outputs, op_return_val, tx_input, txouts, tx>>

\* One recipient/revocation pair per certificate, each output valued at v
RECURSIVE RecipientOutputs(_, _)
RecipientOutputs(n, v) ==
    IF n = 0 THEN <<>>
    ELSE RecipientOutputs(n - 1, v)
            \o create_recipient_outputs(recipient_address(n), revocation_address, v)

\* Funding values on both sides of the cost total
FundingAmounts(total) ==
    { a \in {0, total - 1, total, total + 1, total + MaxSurplus} : a >= 0 }

\* The arguments of create_trx are put together: the recipient outputs at
\* the per-output minimum and the funding input taken from the wallet
CreateRecipientOutputs ==
    /\ pc = "create_recipient_outputs"
    /\ txouts' = RecipientOutputs(num_certificates,
                                  issuing_transaction_cost.min_per_output)
    /\ \E amount \in FundingAmounts(issuing_transaction_cost.total) :
          tx_input' = TransactionOutput(amount)
    /\ pc' = "create_trx"
    /\ UNCHANGED <<cfgvars, envvars, filevars, feevars, connector,
                   broadcast_function, td, txid, status_code, err, log,
                   num_certificates, dust_threshold,
                   recommended_fee_per_transaction, allow_transfer,
                   num_transfer_outputs, op_return_val,
                   issuing_transaction_cost, transfer_cost, tx>>

CreateTrx ==
    /\ pc = "create_trx"
    /\ tx' = create_trx(op_return_val, issuing_transaction_cost,
                        issuing_address, txouts, tx_input)
    /\ pc' = "built"
    /\ UNCHANGED <<cfgvars, envvars, filevars, feevars, connector,
                   broadcast_function, td, txid, status_code, err, log,
                   num_certificates, dust_threshold,
                   recommended_fee_per_transaction, allow_transfer,
                   num_transfer_outputs, op_return_val,
                   issuing_transaction_cost, transfer_cost, tx_input, txouts>>

TxNext ==
    \/ GetCostForCertificateBatch
    \/ CreateRecipientOutputs
    \/ CreateTrx

TxSpec == TxInit /\ [][TxNext]_vars

----------------------------------------------------------------------------
(* Properties *)

Exists(f) == f # Absent

\* The events of descriptor d, in the order they happened
EventsOf(d) == SelectSeq(log, LAMBDA e : e[1] = d)

Happened(d, stage, edge) == \E i \in 1..Len(log) : log[i] = Event(d, stage, edge)

Started(d) == Len(EventsOf(d)) > 0

UnsignedWritten(d) == unsigned_tx_file[d] = hextx(d)
SignedWritten(d)   == signed_tx_file[d] = signed_hextx(hextx(d))
SentWritten(d)     == sent_tx_file[d] = new_txid(signed_hextx(hextx(d)))

\* C1: the stage events of every descriptor are an initial part of
\* persist unsigned, sign_tx, persist signed, verify_transaction, send_tx,
\* persist sent (each with its start before its end): no stage starts
\* before all earlier stages of that descriptor have completed, none is
\* jumped over, none happens twice.
C1_StagesInOrder ==
    \A d \in Trxs :
        LET ev == EventsOf(d)
        IN  /\ Len(ev) <= Len(StageOrder)
            /\ \A i \in 1..Len(ev) : <<ev[i][2], ev[i][3]>> = StageOrder[i]

\* C1 witness: some descriptor went through all six stages
C1_Witness ==
    \E d \in Trxs : Len(EventsOf(d)) = Len(StageOrder)

\* C2: in every state, the state left by an interruption or an exception
\* included, the files of a descriptor are a prefix of unsigned, signed,
\* sent; once sign_tx was called the unsigned file holds the unsigned
\* transaction, and once verification or broadcast was started the signed
\* file holds the signed transaction.
C2_ArtifactsFormPrefix ==
    \A d \in Trxs :
        /\ Exists(signed_tx_file[d]) => Exists(unsigned_tx_file[d])
        /\ Exists(sent_tx_file[d]) => Exists(signed_tx_file[d])
        /\ Happened(d, "sign_tx", "start") => UnsignedWritten(d)
        /\ Happened(d, "verify_transaction", "start") => SignedWritten(d)
        /\ Happened(d, "send_tx", "start") => SignedWritten(d)

\* C2 witness: the run was interrupted or failed with a signed but no sent file
C2_Witness ==
    /\ pc = "failed"
    /\ \E d \in Trxs : SignedWritten(d) /\ ~Exists(sent_tx_file[d])

\* C3 (as claimed): a sent-transaction file exists only for a descriptor
\* whose broadcast returned a transaction identifier.
C3_SentFileOnlyOnSuccess ==
    \A d \in Trxs : Exists(sent_tx_file[d]) => txid[d][1] = "txid"

\* C4 (as claimed): while the key is being imported and the transaction is
\* being signed, the network is unreachable and the key source is present.
C4_AirGapThroughoutSigning ==
    pc \in {"import_key", "tx_sign"} => (internet = FALSE /\ usb = TRUE)

\* C4 (amended): with skip_wifi_check false, the body of sign_tx is entered
\* only by a poll of check_internet_off that sees the network unreachable
\* and the key file present, and the key is imported only in a state where
\* the key file is present; the condition is not looked at again while
\* signing.
C4_SignBodyEnteredOnPoll ==
    [][ /\ (pc = "check_internet_off" /\ pc' = "import_key" /\ ~skip_wifi_check)
            => (internet = FALSE /\ usb = TRUE)
        /\ (pc # "import_key" /\ pc' = "import_key") => pc = "check_internet_off"
        /\ (pc = "import_key" /\ pc' = "tx_sign") => usb = TRUE ]_vars

\* C4 witness: the key is about to be imported after a successful poll
C4_Witness ==
    /\ pc = "import_key"
    /\ ~skip_wifi_check
    /\ internet = FALSE
    /\ usb = TRUE

\* Failures of one transaction: raised by signing, verification, broadcast
\* or persisting while descriptor td is processed
TransactionErrors == {"OSError", "FileNotFoundError", "EncodingError",
                      "SigningError", "VerificationError", "SystemExit",
                      "ConnectionError", "JSONRPCError", "TypeError"}

\* C5 (as claimed): when the run is over after a failure in one
\* transaction, the remaining descriptors of the batch were processed too.
C5_FailureIsolated ==
    (pc \in {"done", "failed"} /\ err \in TransactionErrors)
        => \A d \in Trxs : Started(d)

\* C5 (amended): a failure in one transaction ends the run: the exception
\* leaves issue_on_blockchain, no later descriptor is processed, and
\* nothing changes afterwards.
C5_FailureEndsRun ==
    /\ [](err \in TransactionErrors =>
            /\ pc = "failed"
            /\ td \in Trxs
            /\ \A d \in Trxs : d > td =>
                  /\ ~Started(d)
                  /\ ~Exists(unsigned_tx_file[d])
                  /\ ~Exists(signed_tx_file[d])
                  /\ ~Exists(sent_tx_file[d])
                  /\ txid[d] = NoCall)
    /\ [][ (err \in TransactionErrors) =>
              UNCHANGED <<pc, td, filevars, txid, err, log>> ]_vars

\* C5 witness: the first descriptor failed and a second one is left over
C5_Witness ==
    /\ err \in TransactionErrors
    /\ td < NumTrxs
    /\ Started(td)

\* Failures that have nothing to do with what the broadcaster returned
NotBroadcastErrors == {"OSError", "FileNotFoundError", "EncodingError",
                       "SigningError", "VerificationError", "Interrupted"}

\* C6 (as claimed): with the no-op broadcaster, a run that was not
\* interrupted and met no signing, verification or file error ends without
\* an error, with the unsigned and signed files of every descriptor written.
C6_NoopWarnsAndContinues ==
    (broadcast_function = "noop_broadcast" /\ pc \in {"done", "failed"}
        /\ err \notin NotBroadcastErrors)
        => /\ pc = "done"
           /\ err = "none"
           /\ \A d \in Trxs : UnsignedWritten(d) /\ SignedWritten(d)

\* C7: a non-200 response to insight_broadcast or blockr_broadcast ends the
\* run with the exit: the failed descriptor has no sent file and no txid,
\* its unsigned and signed files and those of all earlier descriptors hold
\* what was persisted, no later descriptor was started, and from then on
\* no file, no log entry and no position changes.
C7_RelayFailureHalts ==
    /\ [](status_code \notin {0, 200} =>
            /\ pc = "failed"
            /\ err = "SystemExit"
            /\ td \in Trxs
            /\ ~Exists(sent_tx_file[td])
            /\ txid[td] = NoCall
            /\ \A d \in Trxs : d <= td => UnsignedWritten(d) /\ SignedWritten(d)
            /\ \A d \in Trxs : d < td => SentWritten(d)
            /\ \A d \in Trxs : d > td => ~Started(d))
    /\ [][ (status_code' \notin {0, 200}) =>
              UNCHANGED <<filevars, txid>> ]_vars
    /\ [][ (status_code \notin {0, 200}) =>
              UNCHANGED <<pc, td, err, log>> ]_vars

\* C7 witness: a relay answered non-200 for the first descriptor of the batch
C7_Witness ==
    /\ status_code = 500
    /\ IsRelay(broadcast_function)
    /\ td < NumTrxs
    /\ Happened(td, "send_tx", "start")

\* C8: descriptors are processed one at a time in batch order: whenever
\* anything of descriptor j has happened or exists, every descriptor i
\* before j has its sent identifier persisted (and so has finished all its
\* stages).
C8_OneAtATime ==
    \A i \in Trxs, j \in Trxs :
        (i < j /\ (Started(j) \/ Exists(unsigned_tx_file[j])
                    \/ Exists(signed_tx_file[j]) \/ Exists(sent_tx_file[j])
                    \/ txid[j] # NoCall))
            => /\ SentWritten(i)
               /\ Len(EventsOf(i)) = Len(StageOrder)

\* C8 witness: the last descriptor of the batch is being signed
C8_Witness ==
    /\ td = NumTrxs
    /\ td > 1
    /\ pc = "tx_sign"

\* C9: create_wallet_connector gives the blockchain.info variant for
\* 'blockchain.info' and the node-RPC variant for 'bitcoind';
\* create_broadcast_function gives the matching broadcaster for its four
\* discriminators; any other string ends in UnrecognizedConnectorError
\* with no variant selected.
C9_FactoryDispatch ==
    /\ pc # "create_wallet_connector" =>
          \/ wallet_connector_type = "blockchain.info"
               /\ connector = "BlockchainInfoConnector"
          \/ wallet_connector_type = "bitcoind"
               /\ connector = "BitcoindConnector"
          \/ wallet_connector_type \notin {"blockchain.info", "bitcoind"}
               /\ connector = "unset"
               /\ pc = "failed"
               /\ err = "UnrecognizedConnectorError"
    /\ (pc \notin {"create_wallet_connector", "create_broadcast_function"}
         /\ connector # "unset") =>
          \/ broadcaster_type = "btc.blockr.io"
               /\ broadcast_function = "blockr_broadcast"
          \/ broadcaster_type = "insight.bitpay.com"
               /\ broadcast_function = "insight_broadcast"
          \/ broadcaster_type = "bitcoind"
               /\ broadcast_function = "bitcoind_broadcast"
          \/ broadcaster_type = "noop"
               /\ broadcast_function = "noop_broadcast"
          \/ broadcaster_type \notin {"btc.blockr.io", "insight.bitpay.com",
                                      "bitcoind", "noop"}
               /\ broadcast_function = "unset"
               /\ pc = "failed"
               /\ err = "UnrecognizedConnectorError"

\* C9 witness: a known wallet connector, then an unknown broadcaster
C9_Witness ==
    /\ connector = "BitcoindConnector"
    /\ broadcaster_type = "blockchain.info"
    /\ err = "UnrecognizedConnectorError"

\* C10: calculate_txfee returns max(rate * size, floor) with
\* size = inputs*148 + outputs*34 + 10 + inputs: the floor exactly when
\* rate * size < floor, rate * size otherwise; 1 input and 4 outputs have
\* size 295.
C10_FeeIsMaxOfRateTimesSizeAndFloor ==
    tx_fee # -1 =>
        LET size == num_inputs * 148 + num_outputs * 34 + 10 + num_inputs
        IN  /\ satoshi_per_byte * size < default_fee => tx_fee = default_fee
            /\ satoshi_per_byte * size >= default_fee => tx_fee = satoshi_per_byte * size
            /\ (num_inputs = 1 /\ num_outputs = 4) => size = 295
            /\ (num_inputs = 1 /\ num_outputs = 4 /\ satoshi_per_byte = 1
                  /\ default_fee = 0) => tx_fee = 295

\* C11: for a fixed rate and floor, a call of calculate_txfee with the input
\* count or the output count raised returns a fee that is not lower than
\* the fee returned for the smaller counts.
C11_FeeNonDecreasingInCounts ==
    [][ (tx_fee # -1 /\ satoshi_per_byte' = satoshi_per_byte
           /\ default_fee' = default_fee
           /\ num_inputs' >= num_inputs /\ num_outputs' >= num_outputs)
          => tx_fee' >= tx_fee ]_vars

\* C11 witness: a count was raised and the fee went up with it, above the floor
C11_Witness ==
    /\ pc = "returned"
    /\ num_inputs + num_outputs > 0
    /\ satoshi_per_byte > 0
    /\ tx_fee > default_fee
    /\ default_fee > 0

\* C10 witness: a positive rate whose fee stays below the floor
C10_Witness ==
    /\ tx_fee # -1
    /\ satoshi_per_byte > 0
    /\ num_inputs = 1
    /\ num_outputs = 4
    /\ satoshi_per_byte * 295 < default_fee
    /\ tx_fee = default_fee

\* How often an event of descriptor d is in the log
Count(d, stage, edge) ==
    Cardinality({ i \in 1..Len(log) : log[i] = Event(d, stage, edge) })

\* C15: within one run, sign_tx is called at most once and the broadcaster
\* is called at most once for every descriptor, whatever fails, and a
\* descriptor gets at most one result of send_tx.
C15_NoRetry ==
    \A d \in Trxs :
        /\ Count(d, "sign_tx", "start") <= 1
        /\ Count(d, "sign_tx", "end") <= 1
        /\ Count(d, "send_tx", "start") <= 1
        /\ Count(d, "send_tx", "end") <= 1

\* C15 witness: the broadcast of a descriptor raised and the run is over
C15_Witness ==
    /\ pc = "failed"
    /\ err \in {"ConnectionError", "JSONRPCError", "SystemExit"}
    /\ Count(td, "sign_tx", "start") = 1
    /\ Count(td, "send_tx", "start") = 1

\* C16 (as claimed): the pipeline goes on to persist the signed transaction
\* only from a poll that sees the network reachable and the key removed,
\* and enters the signing body only from a poll that sees the network
\* unreachable and the key present.
C16_BlocksAroundSigning ==
    [][ /\ (pc # "open_signed" /\ pc' = "open_signed")
            => (internet = TRUE /\ usb = FALSE)
        /\ (pc # "import_key" /\ pc' = "import_key")
            => (internet = FALSE /\ usb = TRUE) ]_vars

\* C16 (amended): when skip_wifi_check is false, the pipeline goes on to
\* persist the signed transaction only from a poll of check_internet_on
\* that sees the network reachable and the key removed, and enters the
\* signing body only from a poll of check_internet_off that sees the
\* network unreachable and the key present; a poll that does not see its
\* condition goes to sleep.  The sleeps of these two loops are the only
\* points where the pipeline suspends, and with skip_wifi_check true it
\* does not suspend at all.
C16_BlocksAroundSigningUnlessSkipped ==
    [][ /\ (~skip_wifi_check /\ pc # "open_signed" /\ pc' = "open_signed")
            => (pc = "check_internet_on" /\ internet = TRUE /\ usb = FALSE)
        /\ (~skip_wifi_check /\ pc # "import_key" /\ pc' = "import_key")
            => (pc = "check_internet_off" /\ internet = FALSE /\ usb = TRUE)
        /\ (~skip_wifi_check /\ pc = "check_internet_on" /\ pc' # pc
              /\ ~(internet = TRUE /\ usb = FALSE))
            => pc' \in {"sleep_on", "failed"}
        /\ (~skip_wifi_check /\ pc = "check_internet_off" /\ pc' # pc
              /\ ~(internet = FALSE /\ usb = TRUE))
            => pc' \in {"sleep_off", "failed"}
        /\ (pc # "sleep_on" /\ pc' = "sleep_on") => pc = "check_internet_on"
        /\ (pc # "sleep_off" /\ pc' = "sleep_off") => pc = "check_internet_off"
        /\ skip_wifi_check => pc' \notin {"sleep_off", "sleep_on"} ]_vars

\* C16 witness: after signing, the pipeline sleeps with the key still plugged
C16_Witness ==
    /\ ~skip_wifi_check
    /\ pc = "sleep_on"
    /\ internet = TRUE
    /\ usb = TRUE

\* C19: send_tx is called for a descriptor only after verify_transaction
\* returned for it; when verification raises, the run is over, the
\* descriptor has no broadcast, no txid and no sent file, its signed file
\* holds the signed transaction, and nothing changes afterwards.
C19_BroadcastOnlyAfterVerification ==
    /\ [](\A d \in Trxs :
            Happened(d, "send_tx", "start") => Happened(d, "verify_transaction", "end"))
    /\ [](\A d \in Trxs :
            (Happened(d, "verify_transaction", "start")
               /\ ~Happened(d, "verify_transaction", "end"))
            => /\ pc = "failed"
               /\ ~Happened(d, "send_tx", "start")
               /\ txid[d] = NoCall
               /\ ~Exists(sent_tx_file[d])
               /\ SignedWritten(d))
    /\ [][ (err = "VerificationError") =>
              UNCHANGED <<pc, td, filevars, txid, err, log>> ]_vars

\* C19 witness: verification raised for the first descriptor of the batch
C19_Witness ==
    /\ err = "VerificationError"
    /\ td = 1
    /\ SignedWritten(td)

\* C20: with skip_wifi_check false, the signing body is entered from
\* check_internet_off only in a step whose single poll sees the network
\* unreachable and the key file present; with skip_wifi_check true,
\* check_internet_off and check_internet_on return at once in every state
\* of the network and of the key file, and never sleep.
C20_PollOrSkip ==
    /\ [][ (~skip_wifi_check /\ pc = "check_internet_off" /\ pc' = "import_key")
              => (internet = FALSE /\ usb = TRUE) ]_vars
    /\ [][ (skip_wifi_check /\ pc = "check_internet_off" /\ pc' # pc)
              => pc' \in {"import_key", "failed"} ]_vars
    /\ [][ (skip_wifi_check /\ pc = "check_internet_on" /\ pc' # pc)
              => pc' \in {"open_signed", "failed"} ]_vars
    /\ [](skip_wifi_check => pc \notin {"sleep_off", "sleep_on"})
    /\ []((skip_wifi_check /\ pc = "check_internet_off") => ENABLED CheckInternetOff)
    /\ []((skip_wifi_check /\ pc = "check_internet_on") => ENABLED CheckInternetOn)

\* C20 witness: the transaction is being signed with the network reachable
C20_Witness ==
    /\ skip_wifi_check
    /\ pc = "tx_sign"
    /\ internet = TRUE

----------------------------------------------------------------------------
(* Termination of issue_on_blockchain *)

OffLoop == {"check_internet_off", "sleep_off"}
OnLoop  == {"check_internet_on", "sleep_on"}

OffOffered == internet_off_ok(internet, usb)
OnOffered  == internet_on_ok(internet, usb)

\* issue_on_blockchain has returned and every descriptor has its txid on disk
Issued == pc = "done" /\ \A d \in Trxs : SentWritten(d)

\* every stage succeeds and the broadcaster returns an identifier
EveryStageSucceeds == [](pc # "failed")

\* C21 as stated, first half: offering each condition infinitely often is
\* enough for every descriptor to be issued
C21_IssuedIfOfferedInfinitelyOften ==
    (EveryStageSucceeds /\ []<>OffOffered /\ []<>OnOffered) => <>Issued

\* C21 as stated, second half: without the condition the pipeline never
\* goes past the corresponding poll
C21_NeverProceedsIfNeverOffered ==
    /\ ([]~OffOffered) => [](pc # "import_key")
    /\ ([]~OnOffered)  => [](pc # "open_signed")

\* C21 (as stated): if every stage succeeds, the broadcaster returns an
\* identifier and the environment offers (network off, key present) and
\* (network on, key absent) infinitely often, every descriptor eventually has
\* its txid persisted and issue_on_blockchain returns; if the environment
\* never offers one of the two conditions, the pipeline never goes past the
\* corresponding polling loop.
C21_IssuedOrWaitsForever ==
    /\ C21_IssuedIfOfferedInfinitelyOften
    /\ C21_NeverProceedsIfNeverOffered

\* With skip_wifi_check false: the run is issued if each condition, once the
\* pipeline polls for it, is eventually offered and held while it polls
C21_IssuedIfHeldWhilePolling ==
    ( /\ ~skip_wifi_check
      /\ EveryStageSucceeds
      /\ <>[](pc \in OffLoop => OffOffered)
      /\ <>[](pc \in OnLoop => OnOffered) )
    => <>Issued

\* With skip_wifi_check false: a condition that is never offered keeps the
\* pipeline in front of the stage behind the poll, waiting in a polling loop
C21_WaitsForeverIfNeverOffered ==
    /\ (~skip_wifi_check /\ []~OffOffered) => [](pc # "import_key")
    /\ (~skip_wifi_check /\ []~OnOffered)  => [](pc # "open_signed")
    /\ (~skip_wifi_check /\ EveryStageSucceeds /\ []~OffOffered)
          => <>[](pc \in OffLoop)
    /\ (~skip_wifi_check /\ EveryStageSucceeds /\ []~OnOffered)
          => <>[](pc \in OffLoop \cup OnLoop)

\* With skip_wifi_check true: the run is issued whatever the environment
\* offers, and never waits
C21_IssuedWithoutWaitingIfSkipped ==
    /\ (skip_wifi_check /\ EveryStageSucceeds) => <>Issued
    /\ skip_wifi_check => [](pc \notin {"sleep_off", "sleep_on"})

\* C21 (amended): with skip_wifi_check false, if every stage succeeds, the
\* broadcaster returns an identifier and each of the two conditions is
\* eventually offered and held for as long as the pipeline polls for it, then
\* every descriptor eventually has its txid persisted and issue_on_blockchain
\* returns; if a condition is never offered, the stage behind its poll is
\* never entered and a run that does not fail waits in a polling loop for
\* ever.  With skip_wifi_check true the run is issued whenever every stage
\* succeeds, and it never waits.
C21_IssuedWhenHeldOrSkipped ==
    /\ C21_IssuedIfHeldWhilePolling
    /\ C21_WaitsForeverIfNeverOffered
    /\ C21_IssuedWithoutWaitingIfSkipped

\* C21 witness: a run that had to pass both polls has returned with every
\* txid persisted
C21_Witness ==
    /\ ~skip_wifi_check
    /\ Issued

----------------------------------------------------------------------------
(* Properties of the built transaction *)

Built == pc = "built"

\* The remainder create_trx computes: funding value minus cost total
Remainder == tx_input.amount - issuing_transaction_cost.total

RECURSIVE SumValues(_)
SumValues(outs) ==
    IF outs = <<>> THEN 0 ELSE outs[1].nValue + SumValues(Tail(outs))

\* Positions of the outputs that pay the issuing address
ChangePositions ==
    { i \in 1..Len(tx.vout) :
        tx.vout[i].scriptPubKey = <<"to_scriptPubKey", issuing_address>> }

\* Positions of the OP_RETURN outputs
CommitmentPositions ==
    { i \in 1..Len(tx.vout) : tx.vout[i].scriptPubKey[1] = "OP_RETURN" }

\* C12: with remainder r = funding value - cost total, a transaction built
\* with r = 0 has no change output, one built with r > 0 has exactly one
\* output paying the issuing address and it pays exactly r; the recipient
\* outputs passed in come first, unchanged and in order.
C12_ChangeOutputByRemainder ==
    (Built /\ Remainder >= 0) =>
        /\ Len(tx.vout) >= Len(txouts)
        /\ SubSeq(tx.vout, 1, Len(txouts)) = txouts
        /\ Remainder = 0 => ChangePositions = {}
        /\ Remainder > 0 =>
              /\ Cardinality(ChangePositions) = 1
              /\ \A i \in ChangePositions : tx.vout[i].nValue = Remainder

\* C12 witness: a transaction built from a funding value equal to the total
C12_Witness ==
    /\ Built
    /\ Remainder = 0
    /\ issuing_transaction_cost.total > 0
    /\ Len(tx.vout) = Len(txouts) + 1

\* C13 (as claimed): the output values plus the computed fee add up to the
\* funding value, and the implicit fee is not negative.
C13_ConservationWithComputedFee ==
    Built =>
        /\ SumValues(tx.vout) + issuing_transaction_cost.fee = tx_input.amount
        /\ tx_input.amount - SumValues(tx.vout) >= 0

\* C13 (amended): get_num_outputs counts two outputs more than the 2*n
\* recipient outputs, and the cost total reserves the per-output minimum
\* for them.  With a funding value above the total, the output values plus
\* the computed fee plus twice the per-output minimum add up to the funding
\* value, so the implicit fee is the computed fee plus twice the per-output
\* minimum.  With a funding value up to the total there is no change
\* output, the outputs add up to 2*n times the per-output minimum, and the
\* implicit fee is negative exactly when the funding value is below that.
C13_ConservationWithReservedOutputs ==
    Built =>
        LET min_per_output == issuing_transaction_cost.min_per_output
            fee            == issuing_transaction_cost.fee
            outputs        == SumValues(tx.vout)
            implicit_fee   == tx_input.amount - outputs
        IN  /\ Remainder > 0 =>
                 /\ outputs + fee + 2 * min_per_output = tx_input.amount
                 /\ implicit_fee = fee + 2 * min_per_output
                 /\ implicit_fee >= 0
            /\ Remainder <= 0 =>
                 /\ outputs = 2 * num_certificates * min_per_output
                 /\ (implicit_fee < 0) <=>
                       (tx_input.amount < 2 * num_certificates * min_per_output)

\* C13 witness: a change output exists and the per-output minimum is not zero
C13_Witness ==
    /\ Built
    /\ Remainder > 0
    /\ issuing_transaction_cost.min_per_output > 0
    /\ tx_input.amount - SumValues(tx.vout) > issuing_transaction_cost.fee

\* C14: a built transaction has exactly one OP_RETURN output; it is the
\* last output, after the recipient outputs and after the change output
\* when there is one, its value is zero and it carries the payload passed
\* to create_trx.
C14_OneCommitmentOutputLast ==
    Built =>
        /\ Len(tx.vout) >= 1
        /\ CommitmentPositions = {Len(tx.vout)}
        /\ tx.vout[Len(tx.vout)].nValue = 0
        /\ tx.vout[Len(tx.vout)].scriptPubKey = <<"OP_RETURN", op_return_val>>
        /\ \A i \in ChangePositions : i < Len(tx.vout)

\* C14 witness: the commitment output follows a change output
C14_Witness ==
    /\ Built
    /\ ChangePositions = {Len(tx.vout) - 1}
    /\ CommitmentPositions = {Len(tx.vout)}

\* C17 (as claimed): with a funding value below the cost total, the built
\* transaction has a change output with a negative amount.
C17_NegativeChangeOutput ==
    (Built /\ Remainder < 0) =>
        \E i \in ChangePositions : tx.vout[i].nValue < 0

\* C17 (amended): with a funding value below the cost total, create_trx
\* does not reject: it builds a transaction, made of the recipient outputs
\* and the commitment output, with no change output and no negative value;
\* the negative remainder is dropped.
C17_UnderfundedBuiltWithoutChange ==
    /\ (pc = "create_trx" /\ Remainder < 0) => ENABLED CreateTrx
    /\ (Built /\ Remainder < 0) =>
          /\ tx # NoTx
          /\ tx.vout = txouts \o << CMutableTxOut(0, <<"OP_RETURN", op_return_val>>) >>
          /\ ChangePositions = {}
          /\ \A i \in 1..Len(tx.vout) : tx.vout[i].nValue >= 0

\* C17 witness: a transaction built from a funding value below the total
C17_Witness ==
    /\ Built
    /\ Remainder < 0
    /\ tx_input.amount > 0
    /\ Len(tx.vout) = 2 * num_certificates + 1

\* C18: get_cost computes the fee for one input: for an output count n the
\* fee is max(rate * (148 + 34*n + 10 + 1), recommended_fee * COIN), the
\* per-output minimum is dust_threshold * COIN and the total is the
\* per-output minimum times n plus the fee.
C18_GetCostOneInput ==
    LET Expected(cost, n) ==
            LET by_size == satoshi_per_byte * (148 + 34 * n + 10 + 1)
                floor   == recommended_fee_per_transaction * 100000000
            IN  /\ cost.fee = IF by_size >= floor THEN by_size ELSE floor
                /\ cost.min_per_output = dust_threshold * 100000000
                /\ cost.total = cost.min_per_output * n + cost.fee
    IN  /\ issuing_transaction_cost # NoCost =>
              Expected(issuing_transaction_cost, 2 * num_certificates + 2)
        /\ transfer_cost # NoCost =>
              Expected(transfer_cost, num_transfer_outputs)
        /\ (pc # "get_cost_for_certificate_batch" /\ allow_transfer) =>
              transfer_cost # NoCost
        /\ pc # "get_cost_for_certificate_batch" =>
              issuing_transaction_cost # NoCost

\* C18 witness: a cost whose fee comes from the size of a 1-input transaction
C18_Witness ==
    /\ transfer_cost # NoCost
    /\ num_transfer_outputs = 3
    /\ satoshi_per_byte = 2
    /\ transfer_cost.fee = 2 * 261
    /\ dust_threshold > 0

====
